---- MODULE Spec2Model ----
(***************************************************************************)
(* Model of the resume analyzer: the heuristic functions of                *)
(* src/src/advanced_analysis.py, the job-board fetchers of                 *)
(* src/src/job_api.py and the dashboard script src/app.py.  Python strings *)
(* are TLA+ strings (TLC evaluates Len, SubSeq and \o on them); a          *)
(* character is a string of length one.  Every function is an operator     *)
(* computed the way the code computes it; a call is a record drawn by      *)
(* Init, and one action per function applies the function to it and        *)
(* stores what it returns.  The dashboard is a state machine whose actions *)
(* are the user's interactions, each followed by a run of the script.      *)
(***************************************************************************)
EXTENDS Integers, Sequences, FiniteSets, TLC

VARIABLES
    call,           \* the function call under way: the function and its arguments
    result,         \* what the call returned
    pc,             \* "call" before the function has run, "done" or "raised" after
    world,          \* what the outside answers: environment, job boards, language model
    requests,       \* the requests issued to the outside by the latest run
    session_state,  \* st.session_state of the dashboard session
    uploaded_file,  \* the file held by the upload widget, "none" without one
    page,           \* what the latest run of the dashboard script displayed
    analysis_runs   \* how many times the analysis block has run to its end

appvars == <<world, requests, session_state, uploaded_file, page, analysis_runs>>

vars == <<call, result, pc, world, requests, session_state, uploaded_file, page,
          analysis_runs>>

(***************************************************************************)
(* Bounds of the model.                                                    *)
(***************************************************************************)
MaxTitleWords == 3

MaxSkills == 3

MaxFragments == 2

MaxTipWords == 2

MaxTipSkills == 2

MaxResumeFragments == 2

MaxAiFragments == 2

MaxJobs == 2

(***************************************************************************)
(* Python string primitives.                                               *)
(***************************************************************************)
UpperAlpha == "ABCDEFGHIJKLMNOPQRSTUVWXYZ"

LowerAlpha == "abcdefghijklmnopqrstuvwxyz"

DigitChars == {"0", "1", "2", "3", "4", "5", "6", "7", "8", "9"}

UpperChars == {SubSeq(UpperAlpha, i, i) : i \in 1..26}

LowerChars == {SubSeq(LowerAlpha, i, i) : i \in 1..26}

\* str.split() and the regex class \s: the whitespace of the model's alphabet.
SpaceChars == {" ", "\t", "\n"}

\* The regex class \w.
WordChars == UpperChars \cup LowerChars \cup DigitChars \cup {"_"}

Min(S) == CHOOSE m \in S : \A x \in S : m <= x

\* s[i-1] in Python terms; "" outside the string.
CharAt(s, i) == IF i >= 1 /\ i <= Len(s) THEN SubSeq(s, i, i) ELSE ""

LowerChar(c) ==
    IF c \in UpperChars
    THEN LET k == CHOOSE i \in 1..26 : SubSeq(UpperAlpha, i, i) = c
         IN  SubSeq(LowerAlpha, k, k)
    ELSE c

\* str.lower(), character by character.
RECURSIVE Lower(_)
Lower(s) ==
    IF Len(s) = 0 THEN ""
    ELSE IF Len(s) = 1 THEN LowerChar(s)
    ELSE LET h == Len(s) \div 2
         IN  Lower(SubSeq(s, 1, h)) \o Lower(SubSeq(s, h + 1, Len(s)))

\* `sub in s` on Python strings.
Contains(s, sub) ==
    \/ Len(sub) = 0
    \/ \E i \in 1..(Len(s) - Len(sub) + 1) : SubSeq(s, i, i + Len(sub) - 1) = sub

\* The start positions of the words str.split() returns.
WordStarts(s) ==
    {i \in 1..Len(s) : /\ CharAt(s, i) \notin SpaceChars
                       /\ (i = 1 \/ CharAt(s, i - 1) \in SpaceChars)}

\* The end position of the word that starts at i.
RECURSIVE WordEnd(_, _)
WordEnd(s, i) ==
    IF i < Len(s) /\ CharAt(s, i + 1) \notin SpaceChars
    THEN WordEnd(s, i + 1)
    ELSE i

\* str.split(): the whitespace-separated words, in order.
RECURSIVE SplitFrom(_, _)
SplitFrom(s, pos) ==
    LET rest == {i \in WordStarts(s) : i >= pos}
    IN  IF rest = {} THEN << >>
        ELSE LET i == Min(rest)
             IN  <<SubSeq(s, i, WordEnd(s, i))>> \o SplitFrom(s, WordEnd(s, i) + 1)

Split(s) == SplitFrom(s, 1)

\* ' '.join(words)
RECURSIVE Join(_)
Join(words) ==
    IF Len(words) = 0 THEN ""
    ELSE IF Len(words) = 1 THEN words[1]
    ELSE words[1] \o " " \o Join(Tail(words))

SeqsUpTo(S, n) == UNION {[1..k -> S] : k \in 0..n}

(***************************************************************************)
(* Regular-expression primitives (Python's re, backtracking semantics).    *)
(***************************************************************************)
\* \b before the character at position i (between positions i-1 and i).
Boundary(t, i) == (CharAt(t, i - 1) \in WordChars) # (CharAt(t, i) \in WordChars)

\* Every character of t[i..j] is in S (and the range lies inside t).
AllIn(t, i, j, S) == \A k \in i..j : CharAt(t, k) \in S

\* \d{n} at position i.
Digits(t, i, n) == AllIn(t, i, i + n - 1, DigitChars)

\* The length of the longest run of characters of S that starts at position i.
RECURSIVE Run(_, _, _)
Run(t, i, S) == IF CharAt(t, i) \in S THEN 1 + Run(t, i + 1, S) ELSE 0

\* The positions after an optional character of S at position i: X? .
Opt(t, i, S) == IF CharAt(t, i) \in S THEN {i, i + 1} ELSE {i}

\* len(re.findall(...)): the matches are taken leftmost first and do not overlap;
\* lens[i] is the length of the match the pattern finds at position i, 0 for none.
RECURSIVE ScanCount(_, _)
ScanCount(lens, pos) ==
    LET rest == {i \in pos..Len(lens) : lens[i] > 0}
    IN  IF rest = {} THEN 0
        ELSE LET i == Min(rest)
             IN  1 + ScanCount(lens, i + lens[i])

(***************************************************************************)
(* calculate_ats_score                                                     *)
(***************************************************************************)
LetterChars == UpperChars \cup LowerChars

\* email_pattern: \b[A-Za-z0-9._%+-]+@[A-Za-z0-9.-]+\.[A-Z|a-z]{2,}\b
EmailLocalChars == LetterChars \cup DigitChars \cup {".", "_", "%", "+", "-"}

EmailDomainChars == LetterChars \cup DigitChars \cup {".", "-"}

EmailTldChars == LetterChars \cup {"|"}

\* bool(re.search(email_pattern, resume_text)): some start, '@', last dot and end fit.
has_email(t) ==
    \E a \in 1..Len(t) :
        /\ CharAt(t, a) = "@"
        /\ \E i \in 1..(a - 1) :
              /\ Boundary(t, i)
              /\ AllIn(t, i, a - 1, EmailLocalChars)
        /\ \E p \in (a + 2)..Len(t) :
              /\ CharAt(t, p) = "."
              /\ AllIn(t, a + 1, p - 1, EmailDomainChars)
              /\ \E e \in (p + 2)..Len(t) :
                    /\ AllIn(t, p + 1, e, EmailTldChars)
                    /\ Boundary(t, e + 1)

\* [-.\s]
PhoneSepChars == {"-", "."} \cup SpaceChars

\* \(?\d{3}\)?[-.\s]?\d{3}[-.\s]?\d{4} at position i
PhoneCoreAt(t, i) ==
    \E p1 \in Opt(t, i, {"("}) :
        /\ Digits(t, p1, 3)
        /\ \E p2 \in Opt(t, p1 + 3, {")"}) :
              \E p3 \in Opt(t, p2, PhoneSepChars) :
                  /\ Digits(t, p3, 3)
                  /\ \E p4 \in Opt(t, p3 + 3, PhoneSepChars) : Digits(t, p4, 4)

\* phone_pattern at position i: the optional group (\+?\d{1,3}[-.\s]?)?, then the rest.
PhoneAt(t, i) ==
    \/ PhoneCoreAt(t, i)
    \/ \E p \in Opt(t, i, {"+"}) :
          \E n \in 1..3 :
              /\ Digits(t, p, n)
              /\ \E q \in Opt(t, p + n, PhoneSepChars) : PhoneCoreAt(t, q)

\* bool(re.search(phone_pattern, resume_text))
has_phone(t) == \E i \in 1..Len(t) : PhoneAt(t, i)

\* Each entry is one pattern; its alternatives are literal.
common_sections == <<
    <<"experience", "work history">>,
    <<"education", "qualification">>,
    <<"skills", "technical skills">>,
    <<"projects", "portfolio">> >>

\* re.search(section, resume_text, re.IGNORECASE)
SectionFound(text_lower, section) ==
    \E a \in 1..Len(section) : Contains(text_lower, section[a])

\* (19|20)\d{2} at position i
YearAt(t, i) ==
    /\ (CharAt(t, i) \o CharAt(t, i + 1)) \in {"19", "20"}
    /\ Digits(t, i + 2, 2)

\* \b(19|20)\d{2}\b : the length of the match at position i, 0 for none.
YearLen(t, i) ==
    IF Boundary(t, i) /\ YearAt(t, i) /\ Boundary(t, i + 4) THEN 4 ELSE 0

MonthNames == {"jan", "feb", "mar", "apr", "may", "jun", "jul", "aug", "sep", "oct",
               "nov", "dec"}

\* \b(Jan|...|Dec)[a-z]*\s+(19|20)\d{2}\b under re.IGNORECASE.  [a-z]* is followed
\* by \s and \s+ by a digit, so each takes its whole run.
MonthYearLen(t, i) ==
    LET a == i + 3 + Run(t, i + 3, LetterChars)
        w == Run(t, a, SpaceChars)
    IN  IF /\ Boundary(t, i)
           /\ Lower(CharAt(t, i) \o CharAt(t, i + 1) \o CharAt(t, i + 2)) \in MonthNames
           /\ w >= 1
           /\ YearAt(t, a + w)
           /\ Boundary(t, a + w + 4)
        THEN a + w + 4 - i
        ELSE 0

\* The lengths \d{1,2} tries for the two numbers, greedy first.
SlashDateOptions == << <<2, 2>>, <<2, 1>>, <<1, 2>>, <<1, 1>> >>

\* \b\d{1,2}/\d{1,2}/(19|20)\d{2}\b
SlashDateLen(t, i) ==
    LET fits(o) == /\ Digits(t, i, o[1])
                   /\ CharAt(t, i + o[1]) = "/"
                   /\ Digits(t, i + o[1] + 1, o[2])
                   /\ CharAt(t, i + o[1] + 1 + o[2]) = "/"
                   /\ YearAt(t, i + o[1] + o[2] + 2)
                   /\ Boundary(t, i + o[1] + o[2] + 6)
        ok == {k \in 1..Len(SlashDateOptions) : fits(SlashDateOptions[k])}
    IN  IF Boundary(t, i) /\ ok # {}
        THEN SlashDateOptions[Min(ok)][1] + SlashDateOptions[Min(ok)][2] + 6
        ELSE 0

\* sum(len(re.findall(pattern, resume_text, re.IGNORECASE)) for pattern in date_patterns)
DateCount(t) ==
    ScanCount([i \in 1..Len(t) |-> YearLen(t, i)], 1)
    + ScanCount([i \in 1..Len(t) |-> MonthYearLen(t, i)], 1)
    + ScanCount([i \in 1..Len(t) |-> SlashDateLen(t, i)], 1)

action_verbs == <<
    "developed", "created", "managed", "led", "designed", "implemented",
    "built", "achieved", "improved", "increased", "reduced", "optimized",
    "coordinated", "analyzed", "established", "maintained" >>

\* The class before \d+ in number_pattern: '$' and five characters outside ASCII
\* (the source holds the euro and pound signs as mis-decoded bytes); the model's
\* alphabet is ASCII, so '$' is the one that can occur.
CurrencyChars == {"$"}

\* \d+%|\d+\+|[$...]\d+|\d+[kK]\+? : the alternatives in order, at position i.
NumberLen(t, i) ==
    LET d == Run(t, i, DigitChars)
        m == Run(t, i + 1, DigitChars)
    IN  IF d >= 1 /\ CharAt(t, i + d) = "%" THEN d + 1
        ELSE IF d >= 1 /\ CharAt(t, i + d) = "+" THEN d + 1
        ELSE IF CharAt(t, i) \in CurrencyChars /\ m >= 1 THEN 1 + m
        ELSE IF d >= 1 /\ CharAt(t, i + d) \in {"k", "K"}
             THEN IF CharAt(t, i + d + 1) = "+" THEN d + 2 ELSE d + 1
        ELSE 0

\* len(re.findall(number_pattern, resume_text))
AchievementCount(t) == ScanCount([i \in 1..Len(t) |-> NumberLen(t, i)], 1)

\* len(resume_text.split())
WordCount(t) == Cardinality(WordStarts(t))

\* Mutant: the cap is forgotten.
PyMinUncapped(a, b) == b

\* min(a, b)
PyMin(a, b) == IF a <= b THEN a ELSE b

\* Mutant: the thresholds are exclusive.
get_grade_exclusive(score) ==
    IF score > 90 THEN "A+"
    ELSE IF score > 80 THEN "A"
    ELSE IF score > 70 THEN "B+"
    ELSE IF score > 60 THEN "B"
    ELSE IF score > 50 THEN "C"
    ELSE "D"

get_grade(score) ==
    IF score >= 90 THEN "A+"
    ELSE IF score >= 80 THEN "A"
    ELSE IF score >= 70 THEN "B+"
    ELSE IF score >= 60 THEN "B"
    ELSE IF score >= 50 THEN "C"
    ELSE "D"

\* Mutant: the optimal range excludes its end points.
LengthScoreOpenRange(word_count) ==
    IF 300 < word_count /\ word_count < 1500 THEN 10
    ELSE IF (200 <= word_count /\ word_count < 300)
              \/ (1500 < word_count /\ word_count <= 2000) THEN 5
    ELSE 2

\* Mutant: the optimal range is worth 15 points.
LengthScoreFifteen(word_count) ==
    IF 300 <= word_count /\ word_count <= 1500 THEN 15
    ELSE IF (200 <= word_count /\ word_count < 300)
              \/ (1500 < word_count /\ word_count <= 2000) THEN 5
    ELSE 2

\* The length check.
LengthScore(word_count) ==
    IF 300 <= word_count /\ word_count <= 1500 THEN 10
    ELSE IF (200 <= word_count /\ word_count < 300)
              \/ (1500 < word_count /\ word_count <= 2000) THEN 5
    ELSE 2

calculate_ats_score(resume_text) ==
    LET max_score == 100
        text_lower == Lower(resume_text)
        contact_score == (IF has_email(resume_text) THEN 10 ELSE 0)
                         + (IF has_phone(resume_text) THEN 10 ELSE 0)
        section_score == 5 * Cardinality({k \in 1..Len(common_sections) :
                                              SectionFound(text_lower, common_sections[k])})
        date_score == PyMin(15, DateCount(resume_text) * 3)
        verb_count == Cardinality({k \in 1..Len(action_verbs) :
                                       Contains(text_lower, action_verbs[k])})
        verb_score == PyMin(20, verb_count * 2)
        achievement_score == PyMin(15, AchievementCount(resume_text) * 3)
        length_score == LengthScore(WordCount(resume_text))
        score == contact_score + section_score + date_score + verb_score
                 + achievement_score + length_score
    IN  [total_score |-> PyMin(score, max_score),
         max_score   |-> max_score,
         breakdown   |-> [contact_info              |-> contact_score,
                          section_headers           |-> section_score,
                          dates                     |-> date_score,
                          action_verbs              |-> verb_score,
                          quantifiable_achievements |-> achievement_score,
                          optimal_length            |-> length_score],
         grade       |-> get_grade(score)]

(***************************************************************************)
(* extract_skills                                                          *)
(***************************************************************************)
tech_skills_keywords == <<
    "python", "java", "javascript", "typescript", "c++", "c#", "sql", "nosql",
    "react", "angular", "vue", "node.js", "django", "flask", "spring",
    "aws", "azure", "gcp", "docker", "kubernetes", "jenkins", "git",
    "machine learning", "ai", "deep learning", "tensorflow", "pytorch",
    "html", "css", "mongodb", "postgresql", "mysql", "redis",
    "rest api", "graphql", "microservices", "agile", "scrum" >>

soft_skills_keywords == <<
    "leadership", "communication", "teamwork", "problem solving",
    "analytical", "creative", "adaptable", "time management",
    "collaboration", "critical thinking", "decision making" >>

\* The elements of a list, as set(list) holds them.
Range(seq) == {seq[i] : i \in 1..Len(seq)}

\* [A-Z][a-z]+ at position i: the position of its last character, 0 for no match.
CapWordEnd(t, i) ==
    IF CharAt(t, i) \in UpperChars /\ Run(t, i + 1, LowerChars) >= 1
    THEN i + Run(t, i + 1, LowerChars)
    ELSE 0

\* [A-Z][a-z]+(?:\s+[A-Z][a-z]+)*\b at position i: the position of the last
\* character of the match, 0 for none.  Another word is taken when there is
\* one; when the rest then fails, the match ends here if \b holds here.
RECURSIVE CapSeqEnd(_, _)
CapSeqEnd(t, i) ==
    LET e == CapWordEnd(t, i)
        w == Run(t, e + 1, SpaceChars)
        more == IF e > 0 /\ w >= 1 /\ CapWordEnd(t, e + 1 + w) > 0
                THEN CapSeqEnd(t, e + 1 + w)
                ELSE 0
    IN  IF e = 0 THEN 0
        ELSE IF more > 0 THEN more
        ELSE IF Boundary(t, e + 1) THEN e
        ELSE 0

\* \b[A-Z][a-z]+(?:\s+[A-Z][a-z]+)*\b : the length of the match at position i.
CapSeqLen(t, i) ==
    IF Boundary(t, i) /\ CapSeqEnd(t, i) > 0 THEN CapSeqEnd(t, i) - i + 1 ELSE 0

\* re.findall(...) of a pattern without groups: the matched strings, leftmost
\* first and not overlapping; lens[i] is the length of the match at position i.
RECURSIVE ScanMatches(_, _, _)
ScanMatches(t, lens, pos) ==
    LET rest == {i \in pos..Len(lens) : lens[i] > 0}
    IN  IF rest = {} THEN << >>
        ELSE LET i == Min(rest)
             IN  <<SubSeq(t, i, i + lens[i] - 1)>> \o ScanMatches(t, lens, i + lens[i])

\* re.findall(r'\b[A-Z][a-z]+(?:\s+[A-Z][a-z]+)*\b', from_ai)
CapitalizedSequences(t) == ScanMatches(t, [i \in 1..Len(t) |-> CapSeqLen(t, i)], 1)

\* Mutant: the text is searched as written, not lowercased.
TextAsWritten(resume_text) == resume_text

\* text_lower = resume_text.lower()
TextLower(resume_text) == Lower(resume_text)

\* [skill for skill in keywords if skill.lower() in text_lower]
KeywordsFound(keywords, text_lower) ==
    LET found(skill) == Contains(text_lower, Lower(skill))
    IN  SelectSeq(keywords, found)

\* Mutant: every AI-extracted word sequence is added.
AiSkillsUnfiltered(ai_skills, technical_skills) == ai_skills

\* [s for s in ai_skills if s.lower() not in [t.lower() for t in technical_skills]]
AiSkillsToAdd(ai_skills, technical_skills) ==
    LET new(sk) == Lower(sk) \notin {Lower(technical_skills[i]) : i \in 1..Len(technical_skills)}
    IN  SelectSeq(ai_skills, new)

\* from_ai is << >> for None and <<text>> for a string; `if from_ai` holds for a
\* string that is not empty.  list(set(...)) returns the distinct entries in an
\* order the language does not fix: the two lists are modelled as sets.
extract_skills(resume_text, from_ai) ==
    LET text_lower == TextLower(resume_text)
        technical_skills == KeywordsFound(tech_skills_keywords, text_lower)
        soft_skills == KeywordsFound(soft_skills_keywords, text_lower)
        extended == IF Len(from_ai) = 1 /\ from_ai[1] # ""
                    THEN technical_skills
                         \o AiSkillsToAdd(CapitalizedSequences(from_ai[1]), technical_skills)
                    ELSE technical_skills
    IN  [technical   |-> Range(extended),
         soft        |-> Range(soft_skills),
         total_count |-> Cardinality(Range(extended)) + Cardinality(Range(soft_skills))]

(***************************************************************************)
(* estimate_salary_range                                                   *)
(***************************************************************************)
\* The table in insertion order (a Python dict iterates in insertion order).
salary_ranges == <<
    [key |-> "intern",            min |-> "1.5", max |-> "3",  avg |-> "2.5"],
    [key |-> "junior",            min |-> "3",   max |-> "6",  avg |-> "4.5"],
    [key |-> "software engineer", min |-> "4",   max |-> "12", avg |-> "7"],
    [key |-> "senior",            min |-> "12",  max |-> "25", avg |-> "18"],
    [key |-> "lead",              min |-> "20",  max |-> "40", avg |-> "28"],
    [key |-> "manager",           min |-> "25",  max |-> "50", avg |-> "35"],
    [key |-> "architect",         min |-> "30",  max |-> "60", avg |-> "42"],
    [key |-> "director",          min |-> "40",  max |-> "80", avg |-> "55"],
    [key |-> "data scientist",    min |-> "6",   max |-> "20", avg |-> "12"],
    [key |-> "devops",            min |-> "5",   max |-> "18", avg |-> "10"],
    [key |-> "full stack",        min |-> "5",   max |-> "15", avg |-> "9"],
    [key |-> "frontend",          min |-> "4",   max |-> "12", avg |-> "7"],
    [key |-> "backend",           min |-> "5",   max |-> "14", avg |-> "8.5"] >>

\* Mutant: the loop keeps the last matching key instead of returning at the first.
estimate_salary_range_last(job_title, location) ==
    LET title_lower == Lower(job_title)
        hits == {k \in 1..Len(salary_ranges) : Contains(title_lower, salary_ranges[k].key)}
    IN  IF hits # {}
        THEN LET value == salary_ranges[CHOOSE k \in hits : \A j \in hits : j <= k]
             IN  [min |-> value.min \o " LPA", max |-> value.max \o " LPA",
                  avg |-> value.avg \o " LPA", currency |-> "INR"]
        ELSE [min |-> "4 LPA", max |-> "12 LPA", avg |-> "7 LPA", currency |-> "INR"]

estimate_salary_range(job_title, location) ==
    LET title_lower == Lower(job_title)
        hits == {k \in 1..Len(salary_ranges) : Contains(title_lower, salary_ranges[k].key)}
    IN  IF hits # {}
        THEN LET value == salary_ranges[Min(hits)]
             IN  [min |-> value.min \o " LPA", max |-> value.max \o " LPA",
                  avg |-> value.avg \o " LPA", currency |-> "INR"]
        ELSE [min |-> "4 LPA", max |-> "12 LPA", avg |-> "7 LPA", currency |-> "INR"]

(***************************************************************************)
(* calculate_job_match_score                                               *)
(***************************************************************************)
\* [s.lower() for s in resume_skills]
LowerAll(skills) == [i \in 1..Len(skills) |-> Lower(skills[i])]

\* Mutant: round() instead of int().
IntPercentRounded(matches, n) == (matches * 200 + n) \div (2 * n)

\* int((matches / n) * 100): the double-precision quotient times 100, truncated.
\* For n < 50 the truncated product is the floor of 100 * matches / n (the
\* first list length at which double rounding loses a unit is 50: 29 of 50
\* gives 57); the model's lists are far shorter.
IntPercent(matches, n) == (matches * 100) \div n

\* Mutant: the final min(100, ...) is dropped.
calculate_job_match_score_noclamp(resume_skills, job_title, job_description) ==
    LET job_text == Lower(job_title \o " " \o job_description)
        resume_skills_lower == LowerAll(resume_skills)
        matches == Cardinality({i \in 1..Len(resume_skills_lower) :
                                    Contains(job_text, resume_skills_lower[i])})
        score == IF Len(resume_skills) > 0
                 THEN IntPercent(matches, Len(resume_skills))
                 ELSE 0
        title_words == Split(Lower(job_title))
        title_matches == Cardinality({i \in 1..Len(title_words) :
                                          Contains(Join(resume_skills_lower), title_words[i])})
    IN  score + (title_matches * 5)

\* Mutant: the title bonus tests the containment the wrong way round.
calculate_job_match_score_reversed(resume_skills, job_title, job_description) ==
    LET job_text == Lower(job_title \o " " \o job_description)
        resume_skills_lower == LowerAll(resume_skills)
        matches == Cardinality({i \in 1..Len(resume_skills_lower) :
                                    Contains(job_text, resume_skills_lower[i])})
        score == IF Len(resume_skills) > 0
                 THEN IF IntPercent(matches, Len(resume_skills)) < 100
                      THEN IntPercent(matches, Len(resume_skills)) ELSE 100
                 ELSE 0
        title_words == Split(Lower(job_title))
        title_matches == Cardinality({i \in 1..Len(title_words) :
                                          Contains(title_words[i], Join(resume_skills_lower))})
    IN  IF score + (title_matches * 5) < 100 THEN score + (title_matches * 5) ELSE 100

\* Mutant: the title bonus is 10 points a word instead of 5.
calculate_job_match_score_bonus10(resume_skills, job_title, job_description) ==
    LET job_text == Lower(job_title \o " " \o job_description)
        resume_skills_lower == LowerAll(resume_skills)
        matches == Cardinality({i \in 1..Len(resume_skills_lower) :
                                    Contains(job_text, resume_skills_lower[i])})
        score == IF Len(resume_skills) > 0
                 THEN IF IntPercent(matches, Len(resume_skills)) < 100
                      THEN IntPercent(matches, Len(resume_skills)) ELSE 100
                 ELSE 0
        title_words == Split(Lower(job_title))
        title_matches == Cardinality({i \in 1..Len(title_words) :
                                          Contains(Join(resume_skills_lower), title_words[i])})
    IN  IF score + (title_matches * 10) < 100 THEN score + (title_matches * 10) ELSE 100

\* Mutant: a description, when there is one, stands in for the title.
JobTextDescriptionOnly(job_title, job_description) ==
    IF job_description = "" THEN Lower(job_title \o " ") ELSE Lower(job_description)

\* job_text = (job_title + " " + job_description).lower()
JobText(job_title, job_description) == Lower(job_title \o " " \o job_description)

\* Mutant: the percentage is computed for every list, the empty one included.
DivisionUnguarded(resume_skills) == TRUE

\* if len(resume_skills) > 0: the percentage is computed under this guard only.
DivisionGuard(resume_skills) == Len(resume_skills) > 0

\* matches / len(resume_skills) raises ZeroDivisionError when it is evaluated
\* for a list of length 0.
ZeroDivisionError(resume_skills) == DivisionGuard(resume_skills) /\ Len(resume_skills) = 0

calculate_job_match_score(resume_skills, job_title, job_description) ==
    LET job_text == JobText(job_title, job_description)
        resume_skills_lower == LowerAll(resume_skills)
        \* sum(1 for skill in resume_skills_lower if skill in job_text): one
        \* per list position, so a repeated skill counts every time
        matches == Cardinality({i \in 1..Len(resume_skills_lower) :
                                    Contains(job_text, resume_skills_lower[i])})
        score == IF DivisionGuard(resume_skills)
                 THEN IF IntPercent(matches, Len(resume_skills)) < 100
                      THEN IntPercent(matches, Len(resume_skills)) ELSE 100
                 ELSE 0
        title_words == Split(Lower(job_title))
        title_matches == Cardinality({i \in 1..Len(title_words) :
                                          Contains(Join(resume_skills_lower), title_words[i])})
    IN  IF score + (title_matches * 5) < 100 THEN score + (title_matches * 5) ELSE 100

(***************************************************************************)
(* generate_interview_tips.  A tip is its text without the leading pictogram. *)
(***************************************************************************)
UniversalTips == <<
    "Review STAR method (Situation, Task, Action, Result) for behavioral questions",
    "Prepare examples of your past projects and achievements",
    "Practice explaining complex technical concepts in simple terms" >>

DataTips == <<
    "Be ready to discuss your data analysis projects and methodologies",
    "Brush up on statistics, probability, and machine learning algorithms",
    "Practice SQL queries and data manipulation problems" >>

FrontendTips == <<
    "Prepare your portfolio of UI/UX projects",
    "Review React/Vue/Angular lifecycle and hooks",
    "Discuss responsive design and browser compatibility" >>

BackendTips == <<
    "Review RESTful API design principles",
    "Discuss database design and optimization",
    "Understand authentication, authorization, and security best practices" >>

DevopsTips == <<
    "Review CI/CD pipeline concepts",
    "Discuss containerization and orchestration (Docker, Kubernetes)",
    "Understand monitoring, logging, and alerting strategies" >>

FullStackTips == <<
    "Be prepared for both frontend and backend questions",
    "Discuss your experience with complete project lifecycle",
    "Review system design fundamentals" >>

DefaultTips == <<
    "Research the company's products and recent news",
    "Prepare thoughtful questions to ask the interviewer",
    "Highlight projects relevant to the job description" >>

PythonTip == "Review Python data structures and common libraries"

CloudTip == "Discuss your cloud architecture experience and cost optimization"

\* Mutant: the backend branch is tested before the frontend branch.
RoleTipsBackendFirst(title_lower) ==
    IF Contains(title_lower, "data") \/ Contains(title_lower, "ml")
           \/ Contains(title_lower, "ai")
    THEN DataTips
    ELSE IF Contains(title_lower, "backend") \/ Contains(title_lower, "api")
    THEN BackendTips
    ELSE IF Contains(title_lower, "frontend") \/ Contains(title_lower, "react")
           \/ Contains(title_lower, "ui")
    THEN FrontendTips
    ELSE IF Contains(title_lower, "devops") \/ Contains(title_lower, "sre")
    THEN DevopsTips
    ELSE IF Contains(title_lower, "full stack")
    THEN FullStackTips
    ELSE DefaultTips

\* Mutant: plain `if`s instead of the elif chain, so every matching group adds its bundle.
RoleTipsEveryMatch(title_lower) ==
    LET data == IF Contains(title_lower, "data") \/ Contains(title_lower, "ml")
                      \/ Contains(title_lower, "ai")
                THEN DataTips ELSE << >>
        front == IF Contains(title_lower, "frontend") \/ Contains(title_lower, "react")
                      \/ Contains(title_lower, "ui")
                 THEN FrontendTips ELSE << >>
        back == IF Contains(title_lower, "backend") \/ Contains(title_lower, "api")
                THEN BackendTips ELSE << >>
        ops == IF Contains(title_lower, "devops") \/ Contains(title_lower, "sre")
               THEN DevopsTips ELSE << >>
        full == IF Contains(title_lower, "full stack") THEN FullStackTips ELSE << >>
        all == data \o front \o back \o ops \o full
    IN  IF all = << >> THEN DefaultTips ELSE all

\* The if / elif chain over the lowercased title.
RoleTips(title_lower) ==
    IF Contains(title_lower, "data") \/ Contains(title_lower, "ml")
           \/ Contains(title_lower, "ai")
    THEN DataTips
    ELSE IF Contains(title_lower, "frontend") \/ Contains(title_lower, "react")
           \/ Contains(title_lower, "ui")
    THEN FrontendTips
    ELSE IF Contains(title_lower, "backend") \/ Contains(title_lower, "api")
    THEN BackendTips
    ELSE IF Contains(title_lower, "devops") \/ Contains(title_lower, "sre")
    THEN DevopsTips
    ELSE IF Contains(title_lower, "full stack")
    THEN FullStackTips
    ELSE DefaultTips

\* Mutant: the skills are compared without lowercasing them.
InLoweredCaseSensitive(x, skills) == \E i \in 1..Len(skills) : skills[i] = x

\* x in [s.lower() for s in skills]
InLowered(x, skills) == \E i \in 1..Len(skills) : Lower(skills[i]) = x

\* tips[:n]
Take(tips, n) == SubSeq(tips, 1, IF Len(tips) < n THEN Len(tips) ELSE n)

\* Mutant: the skill-triggered tips are appended before the role-specific bundle.
generate_interview_tips_skills_first(job_title, skills) ==
    LET title_lower == Lower(job_title)
        tips1 == IF InLowered("python", skills) THEN Append(UniversalTips, PythonTip)
                 ELSE UniversalTips
        tips2 == IF \E cloud \in {"aws", "azure", "gcp"} : InLowered(cloud, skills)
                 THEN Append(tips1, CloudTip)
                 ELSE tips1
        tips3 == tips2 \o RoleTips(title_lower)
    IN  Take(tips3, 8)

\* The list as assembled, before the final slice.
AssembledTips(job_title, skills) ==
    LET title_lower == Lower(job_title)
        tips1 == UniversalTips \o RoleTips(title_lower)
        tips2 == IF InLowered("python", skills) THEN Append(tips1, PythonTip) ELSE tips1
    IN  IF \E cloud \in {"aws", "azure", "gcp"} : InLowered(cloud, skills)
        THEN Append(tips2, CloudTip)
        ELSE tips2

generate_interview_tips(job_title, skills) == Take(AssembledTips(job_title, skills), 8)

(***************************************************************************)
(* job_api.py.  A fetcher is a function of its arguments and of what the   *)
(* outside answers: the process environment and the response of the job    *)
(* board.  It yields the list it returns and the requests it has issued.   *)
(***************************************************************************)
MaxOf(S) == CHOOSE m \in S : \A x \in S : m >= x

\* str.strip()
Strip(s) ==
    LET solid == {i \in 1..Len(s) : CharAt(s, i) \notin SpaceChars}
    IN  IF solid = {} THEN "" ELSE SubSeq(s, Min(solid), MaxOf(solid))

\* str.split(sep) for a separator of one character: the pieces between the
\* separators, empty pieces included.
RECURSIVE SplitOnFrom(_, _, _)
SplitOnFrom(s, sep, pos) ==
    LET seps == {i \in pos..Len(s) : CharAt(s, i) = sep}
    IN  IF seps = {} THEN <<SubSeq(s, pos, Len(s))>>
        ELSE <<SubSeq(s, pos, Min(seps) - 1)>> \o SplitOnFrom(s, sep, Min(seps) + 1)

SplitOn(s, sep) == SplitOnFrom(s, sep, 1)

\* sep.join(words)
RECURSIVE JoinWith(_, _)
JoinWith(words, sep) ==
    IF Len(words) = 0 THEN ""
    ELSE IF Len(words) = 1 THEN words[1]
    ELSE words[1] \o sep \o JoinWith(Tail(words), sep)

\* str(list) of a list of strings without quotes in them, as an f-string
\* formats it: ['a', 'b'].
ListStr(words) ==
    "[" \o JoinWith([i \in 1..Len(words) |-> "'" \o words[i] \o "'"], ", ") \o "]"

\* s[:n] of a string.
StrPrefix(s, n) == SubSeq(s, 1, IF Len(s) < n THEN Len(s) ELSE n)

\* lst[:n] of a list.
Prefix(lst, n) == SubSeq(lst, 1, IF Len(lst) < n THEN Len(lst) ELSE n)

RemoteokUrl == "GET https://remoteok.com/api"

AdzunaUrl == "GET https://api.adzuna.com/v1/api/jobs/in/search/1"

NaukriActor == "CALL apify actor alpcnRV9YI9lYVPWk"

\* any(term.strip() in job_text for term in search_terms)
RemoteokMatches(job, search_query) ==
    LET search_terms == SplitOn(Lower(search_query), ",")
        job_text == Lower(job.position \o " " \o job.company \o " " \o ListStr(job.tags))
    IN  \E i \in 1..Len(search_terms) : Contains(job_text, Strip(search_terms[i]))

\* The listing appended to filtered_jobs.
RemoteokListing(job) ==
    [title       |-> job.position,
     companyName |-> job.company,
     location    |-> "Remote",
     url         |-> job.url,
     tags        |-> IF Len(job.tags) > 0 THEN JoinWith(Prefix(job.tags, 5), ", ") ELSE "N/A"]

\* Mutant: every matching job of the window is returned.
RemoteokUncapped(filtered_jobs, max_jobs) == filtered_jobs

\* The loop stops appending once filtered_jobs holds max_jobs listings, and
\* filtered_jobs[:max_jobs] is returned.
RemoteokCapped(filtered_jobs, max_jobs) == Prefix(filtered_jobs, max_jobs)

\* response: raises (requests.get raised), status_code, json_ok (the body
\* parses to a list) and json (the parsed list, its first item metadata).
fetch_remoteok_jobs(search_query, max_jobs, response) ==
    LET all_jobs == Tail(response.json)
        window == Prefix(all_jobs, max_jobs * 2)
        matches(job) == RemoteokMatches(job, search_query)
        matching == SelectSeq(window, matches)
        filtered_jobs == [i \in 1..Len(matching) |-> RemoteokListing(matching[i])]
    IN  [issued   |-> <<RemoteokUrl>>,
         returned |-> IF response.raises THEN << >>
                      ELSE IF response.status_code # 200 THEN << >>
                      ELSE IF ~response.json_ok \/ Len(response.json) = 0 THEN << >>
                      ELSE RemoteokCapped(filtered_jobs, max_jobs)]

\* The listing appended to jobs.
AdzunaListing(job) ==
    [title       |-> job.title,
     companyName |-> job.company,
     location    |-> job.location,
     url         |-> job.redirect_url,
     description |-> StrPrefix(job.description, 200) \o "..."]

\* not (not app_id or not app_key): os.getenv gives None for a variable that
\* is not set, modelled as "", which is as falsy as None.
AdzunaHasCredentials(env) == env.ADZUNA_APP_ID # "" /\ env.ADZUNA_APP_KEY # ""

\* response: raises, status_code, json_ok (the body parses to a dict) and
\* results (data.get('results', [])).
fetch_adzuna_jobs(search_query, location, max_jobs, env, response) ==
    IF ~AdzunaHasCredentials(env) THEN [issued |-> << >>, returned |-> << >>]
    ELSE [issued   |-> <<AdzunaUrl>>,
          returned |-> IF response.raises THEN << >>
                       ELSE IF response.status_code # 200 THEN << >>
                       ELSE IF ~response.json_ok THEN << >>
                       ELSE [i \in 1..Len(response.results)
                                |-> AdzunaListing(response.results[i])]]

\* outcome: raises (the actor call or the dataset read raised) and items.
fetch_naukri_jobs(search_query, location, rows, outcome) ==
    [issued   |-> <<NaukriActor>>,
     returned |-> IF outcome.raises THEN << >> ELSE outcome.items]

(***************************************************************************)
(* Calls.  A call record has the same fields for every function; a         *)
(* function reads only its own parameters.                                 *)
(***************************************************************************)
NoCall == [fn |-> "none", resume_text |-> "", from_ai |-> << >>, job_title |-> "",
           job_description |-> "", skills |-> << >>, location |-> "",
           search_query |-> "", max_jobs |-> 0]

\* An empty dict.
EmptyDict == [k \in {} |-> 0]

NoResponse == [raises |-> FALSE, status_code |-> 0, json_ok |-> FALSE, json |-> << >>,
               results |-> << >>]

NoWorld == [env      |-> [ADZUNA_APP_ID |-> "", ADZUNA_APP_KEY |-> ""],
            remoteok |-> NoResponse,
            adzuna   |-> NoResponse,
            naukri   |-> [raises |-> FALSE, items |-> << >>],
            keywords |-> ""]

NoPage == [view |-> "none", data |-> EmptyDict, cards |-> << >>]

\* The dashboard is not running: a function is called on its own.
NoApp == /\ world = NoWorld
         /\ requests = << >>
         /\ session_state = EmptyDict
         /\ uploaded_file = "none"
         /\ page = NoPage
         /\ analysis_runs = 0

SalaryTitleWords == {"Senior", "Software", "Engineer", "Internal", "Lead",
                     "Data", "Scientist", "DevOps", "Analyst"}

SalaryTitles == {Join(ws) : ws \in SeqsUpTo(SalaryTitleWords, MaxTitleWords)}

SalaryCalls ==
    {[NoCall EXCEPT !.fn = "estimate_salary_range", !.job_title = t, !.location = "India"]
        : t \in SalaryTitles}

InitSalary == /\ call \in SalaryCalls
              /\ result = 0
              /\ pc = "call"
              /\ NoApp

EstimateSalaryRange ==
    /\ pc = "call"
    /\ call.fn = "estimate_salary_range"
    /\ result' = estimate_salary_range(call.job_title, call.location)
    /\ pc' = "done"
    /\ UNCHANGED <<call, appvars>>

NextSalary == EstimateSalaryRange

SpecSalary == InitSalary /\ [][NextSalary]_vars

MatchSkillVocab == {"python", "django", "Java", "go", "SQL"}

MatchTitles == {"Python Developer", "Any Title", "", "Java Backend Engineer",
                "Senior Python Java Developer", "SQL  Django\tGo Admin"}

MatchDescriptions == {"", "Build Django services with SQL", "python and java"}

MatchCalls ==
    {[NoCall EXCEPT !.fn = "calculate_job_match_score", !.skills = sk,
                    !.job_title = t, !.job_description = d]
        : sk \in SeqsUpTo(MatchSkillVocab, MaxSkills), t \in MatchTitles,
          d \in MatchDescriptions}

InitMatch == /\ call \in MatchCalls
             /\ result = 0
             /\ pc = "call"
             /\ NoApp

CalculateJobMatchScore ==
    /\ pc = "call"
    /\ call.fn = "calculate_job_match_score"
    /\ IF ZeroDivisionError(call.skills)
       THEN /\ result' = "ZeroDivisionError"
            /\ pc' = "raised"
       ELSE /\ result' = calculate_job_match_score(call.skills, call.job_title,
                                                    call.job_description)
            /\ pc' = "done"
    /\ UNCHANGED <<call, appvars>>

NextMatch == CalculateJobMatchScore

SpecMatch == InitMatch /\ [][NextMatch]_vars

\* s repeated n times.
RECURSIVE Repeat(_, _)
Repeat(s, n) ==
    IF n = 0 THEN ""
    ELSE LET h == Repeat(s, n \div 2)
         IN  IF n % 2 = 0 THEN h \o h ELSE h \o h \o s

\* Short resume texts: up to MaxFragments fragments joined by spaces.
AtsFragments == {"jane.doe@mail.com", "a@b.c", "(555) 123-4567", "555-1234",
                 "Work History", "EDUCATION", "Technical Skills", "portfolio",
                 "2019", "1899", "Jan 2020", "03/15/2021",
                 "Developed", "knowledge", "50%", "$5000", "20K+"}

FragmentTexts == {Join(fs) : fs \in SeqsUpTo(AtsFragments, MaxFragments)}

\* The parts of a resume that earns the full marks of every category.
RichParts == <<
    "jane.doe@mail.com",
    "+91 9876543210",
    "Experience\nEducation\nSkills\nProjects",
    "Jan 2019 - March  2021, 7/4/2022",
    "developed created managed led designed implemented built achieved improved increased",
    "50% 10+ $5000 20K+ 3k" >>

\* Parts j..k of it.
RichText(j, k) == Join(SubSeq(RichParts, j, k))

\* n filler words.
Filler(n) == Repeat("w ", n)

\* The word counts at and around the thresholds of the length check.
FillerCounts == {100, 199, 200, 299, 300, 1500, 1501, 2000, 2001, 2500}

LongTexts ==
    {Filler(n) : n \in FillerCounts}
    \cup {RichText(j, k) \o "\n" \o Filler(n) :
              j \in 1..Len(RichParts), k \in 1..Len(RichParts), n \in {0, 200, 300}}
    \cup {Filler(n) \o RichText(1, Len(RichParts)) : n \in {1472, 1473}}

AtsCalls ==
    {[NoCall EXCEPT !.fn = "calculate_ats_score", !.resume_text = t]
        : t \in FragmentTexts \cup LongTexts}

InitAts == /\ call \in AtsCalls
           /\ result = 0
           /\ pc = "call"
           /\ NoApp

CalculateAtsScore ==
    /\ pc = "call"
    /\ call.fn = "calculate_ats_score"
    /\ result' = calculate_ats_score(call.resume_text)
    /\ pc' = "done"
    /\ UNCHANGED <<call, appvars>>

NextAts == CalculateAtsScore

SpecAts == InitAts /\ [][NextAts]_vars

TipTitleWords == {"Data", "HTML", "Maintenance", "Frontend", "React", "Build", "Backend",
                  "API", "DevOps", "SRE", "Full", "Stack"}

TipSkillVocab == {"Python", "pythonic", "GCP"}

\* Skill lists with the other cloud names.
MoreTipSkills == {<<"aws">>, <<"Azure">>, <<"pythonic", "Azure">>, <<"java", "AWS">>}

\* The call the specification of the repository gives as an example.
ExampleTipCall ==
    [NoCall EXCEPT !.fn = "generate_interview_tips", !.job_title = "Backend API Engineer",
                   !.skills = <<"python">>]

TipCalls ==
    {[NoCall EXCEPT !.fn = "generate_interview_tips", !.job_title = Join(ws), !.skills = sk]
        : ws \in SeqsUpTo(TipTitleWords, MaxTipWords),
          sk \in SeqsUpTo(TipSkillVocab, MaxTipSkills) \cup MoreTipSkills}

InitTips == /\ call \in TipCalls \cup {ExampleTipCall}
            /\ result = 0
            /\ pc = "call"
            /\ NoApp

GenerateInterviewTips ==
    /\ pc = "call"
    /\ call.fn = "generate_interview_tips"
    /\ result' = generate_interview_tips(call.job_title, call.skills)
    /\ pc' = "done"
    /\ UNCHANGED <<call, appvars>>

NextTips == GenerateInterviewTips

SpecTips == InitTips /\ [][NextTips]_vars

SkillResumeFragments == {"I know Python and AWS", "leadership", "JavaScript",
                         "Problem Solving"}

SkillAiFragments == {"Python,", "Leadership", "Machine  Learning;", "PyTorch and Docker"}

\* from_ai: None, or a text of up to MaxAiFragments fragments.
SkillAiTexts ==
    {<< >>} \cup {<<Join(fs)>> : fs \in SeqsUpTo(SkillAiFragments, MaxAiFragments)}

SkillCalls ==
    {[NoCall EXCEPT !.fn = "extract_skills", !.resume_text = Join(fs), !.from_ai = ai]
        : fs \in SeqsUpTo(SkillResumeFragments, MaxResumeFragments), ai \in SkillAiTexts}

InitSkills == /\ call \in SkillCalls
              /\ result = 0
              /\ pc = "call"
              /\ NoApp

ExtractSkills ==
    /\ pc = "call"
    /\ call.fn = "extract_skills"
    /\ result' = extract_skills(call.resume_text, call.from_ai)
    /\ pc' = "done"
    /\ UNCHANGED <<call, appvars>>

NextSkills == ExtractSkills

SpecSkills == InitSkills /\ [][NextSkills]_vars

\* Inputs at the edges of the five functions' domains: the empty string,
\* whitespace only, punctuation, and texts that the patterns match.
EdgeStrings == {"", " ", "\n\t", "C++ (", "Python", "senior data engineer",
                "x@y.zz +1 555 123 4567 in 2020", "Led 50% growth"}

EdgeSkillWords == {"", "python", "C++"}

EdgeSkillLists == SeqsUpTo(EdgeSkillWords, MaxTipSkills)

EdgeCalls ==
    {[NoCall EXCEPT !.fn = "calculate_ats_score", !.resume_text = t] : t \in EdgeStrings}
    \cup {[NoCall EXCEPT !.fn = "extract_skills", !.resume_text = t, !.from_ai = ai]
             : t \in EdgeStrings, ai \in {<< >>} \cup {<<a>> : a \in EdgeStrings}}
    \cup {[NoCall EXCEPT !.fn = "calculate_job_match_score", !.skills = sk,
                         !.job_title = t, !.job_description = d]
             : sk \in EdgeSkillLists, t \in EdgeStrings, d \in EdgeStrings}
    \cup {[NoCall EXCEPT !.fn = "estimate_salary_range", !.job_title = t, !.location = l]
             : t \in EdgeStrings, l \in EdgeStrings}
    \cup {[NoCall EXCEPT !.fn = "generate_interview_tips", !.job_title = t, !.skills = sk]
             : t \in EdgeStrings, sk \in EdgeSkillLists}

InitAnalysis == /\ call \in EdgeCalls
                /\ result = 0
                /\ pc = "call"
                /\ NoApp

NextAnalysis ==
    \/ CalculateAtsScore
    \/ ExtractSkills
    \/ CalculateJobMatchScore
    \/ EstimateSalaryRange
    \/ GenerateInterviewTips

SpecAnalysis == InitAnalysis /\ [][NextAnalysis]_vars

\* The first n entries of the endless repetition of pattern.
Cycle(pattern, n) == [i \in 1..n |-> pattern[((i - 1) % Len(pattern)) + 1]]

\* The first item of the RemoteOK payload, which is not a job.
RemoteokMetadata == [position |-> "", company |-> "", url |-> "", tags |-> <<"legal">>]

PythonJob == [position |-> "Python Developer", company |-> "Acme", url |-> "https://a",
              tags |-> <<"python", "aws">>]

ChefJob == [position |-> "Chef", company |-> "Bistro", url |-> "https://b", tags |-> << >>]

AwsJob == [position |-> "AWS Engineer", company |-> "Nimbus", url |-> "https://c",
           tags |-> <<"aws", "cloud", "linux", "go", "rust", "k8s">>]

RemoteokPatterns == {<<PythonJob, ChefJob, AwsJob>>, <<ChefJob, PythonJob>>, <<PythonJob>>}

StatusCodes == {200, 404, 500}

\* What RemoteOK can answer to a fetch of at most max_jobs listings.
RemoteokResponses(max_jobs) ==
    {[NoResponse EXCEPT !.raises = TRUE]}
    \cup {[NoResponse EXCEPT !.status_code = 200]}
    \cup {[NoResponse EXCEPT !.status_code = 200, !.json_ok = TRUE]}
    \cup {[NoResponse EXCEPT !.status_code = c, !.json_ok = TRUE,
                             !.json = <<RemoteokMetadata>> \o Cycle(p, n)]
             : c \in StatusCodes, p \in RemoteokPatterns,
               n \in {0, 1, max_jobs, 2 * max_jobs + 1}}

AdzunaJobs == <<
    [title |-> "Data Engineer", company |-> "Acme", location |-> "Pune",
     redirect_url |-> "https://d", description |-> "Build pipelines"],
    [title |-> "Python Developer", company |-> "Nimbus", location |-> "Delhi",
     redirect_url |-> "https://e", description |-> ""] >>

AdzunaResponses ==
    {[NoResponse EXCEPT !.raises = TRUE]}
    \cup {[NoResponse EXCEPT !.status_code = 200]}
    \cup {[NoResponse EXCEPT !.status_code = c, !.json_ok = TRUE,
                             !.results = Cycle(AdzunaJobs, n)]
             : c \in StatusCodes, n \in {0, 1, MaxJobs + 1}}

Environments == [ADZUNA_APP_ID : {"", "id"}, ADZUNA_APP_KEY : {"", "key"}]

NaukriItems == <<
    [title |-> "AWS Cloud Engineer", companyName |-> "Acme", location |-> "Mumbai",
     url |-> "https://f"],
    [title |-> "Accountant", companyName |-> "Ledger", location |-> "Chennai",
     url |-> "https://g"] >>

NaukriOutcomes ==
    {[raises |-> TRUE, items |-> << >>]}
    \cup {[raises |-> FALSE, items |-> Cycle(NaukriItems, n)] : n \in {0, 1, MaxJobs + 1}}

SearchQueries == {"python, aws", "Chef", "", "data ,developer"}

\* A call of a fetcher together with the outside it meets.
FetchCases ==
    {<<[NoCall EXCEPT !.fn = "fetch_remoteok_jobs", !.search_query = q, !.max_jobs = m],
       [NoWorld EXCEPT !.remoteok = r]>>
        : q \in SearchQueries, m \in 0..MaxJobs,
          r \in UNION {RemoteokResponses(k) : k \in 0..MaxJobs}}
    \cup {<<[NoCall EXCEPT !.fn = "fetch_adzuna_jobs", !.search_query = q,
                           !.location = "india", !.max_jobs = m],
            [NoWorld EXCEPT !.env = e, !.adzuna = r]>>
             : q \in {"python, aws"}, m \in {MaxJobs}, e \in Environments,
               r \in AdzunaResponses}
    \cup {<<[NoCall EXCEPT !.fn = "fetch_naukri_jobs", !.search_query = q,
                           !.location = "india", !.max_jobs = m],
            [NoWorld EXCEPT !.naukri = o]>>
             : q \in {"python, aws"}, m \in {MaxJobs}, o \in NaukriOutcomes}

InitFetch == /\ \E case \in FetchCases : call = case[1] /\ world = case[2]
             /\ result = 0
             /\ pc = "call"
             /\ requests = << >>
             /\ session_state = EmptyDict
             /\ uploaded_file = "none"
             /\ page = NoPage
             /\ analysis_runs = 0

FetchRemoteokJobs ==
    /\ pc = "call"
    /\ call.fn = "fetch_remoteok_jobs"
    /\ LET fetched == fetch_remoteok_jobs(call.search_query, call.max_jobs, world.remoteok)
       IN  /\ result' = fetched.returned
           /\ requests' = fetched.issued
    /\ pc' = "done"
    /\ UNCHANGED <<call, world, session_state, uploaded_file, page, analysis_runs>>

FetchAdzunaJobs ==
    /\ pc = "call"
    /\ call.fn = "fetch_adzuna_jobs"
    /\ LET fetched == fetch_adzuna_jobs(call.search_query, call.location, call.max_jobs,
                                        world.env, world.adzuna)
       IN  /\ result' = fetched.returned
           /\ requests' = fetched.issued
    /\ pc' = "done"
    /\ UNCHANGED <<call, world, session_state, uploaded_file, page, analysis_runs>>

FetchNaukriJobs ==
    /\ pc = "call"
    /\ call.fn = "fetch_naukri_jobs"
    /\ LET fetched == fetch_naukri_jobs(call.search_query, call.location, call.max_jobs,
                                        world.naukri)
       IN  /\ result' = fetched.returned
           /\ requests' = fetched.issued
    /\ pc' = "done"
    /\ UNCHANGED <<call, world, session_state, uploaded_file, page, analysis_runs>>

NextFetch == FetchRemoteokJobs \/ FetchAdzunaJobs \/ FetchNaukriJobs

SpecFetch == InitFetch /\ [][NextFetch]_vars

(***************************************************************************)
(* app.py: the dashboard script.  Every interaction of the user reruns the *)
(* script from its first line with the widgets' values; st.session_state   *)
(* is what lasts from one run to the next.                                 *)
(***************************************************************************)
\* if key not in st.session_state: st.session_state[key] = value
SetDefault(dict, key, value) ==
    IF key \in DOMAIN dict THEN dict
    ELSE [k \in DOMAIN dict \cup {key} |-> IF k = key THEN value ELSE dict[k]]

\* Initialize session state
InitSessionState(state) ==
    SetDefault(SetDefault(state, "analysis_done", FALSE), "resume_data", EmptyDict)

\* Mutant: the resume is analysed on every run that has a file.
AnalysisOnEveryRun(state) == TRUE

\* if not st.session_state.analysis_done
AnalysisNeeded(state) == ~state.analysis_done

\* list(a_set): the elements in an order that the language does not fix.
Orderings(S) == {seq \in [1..Cardinality(S) -> S] : Range(seq) = S}

\* The calls the analysis block issues to the outside.
AnalysisRequests == <<"extract_text_from_pdf", "ask_openai", "ask_openai", "ask_openai">>

\* The dicts the analysis block can store for a resume text and the answers
\* of the language model, one for each order of the skill lists.
AnalysisResults(resume_text, answers) ==
    LET ats_score == calculate_ats_score(resume_text)
        skills == extract_skills(resume_text, <<answers.summary>>)
    IN  {[resume_text    |-> resume_text,
          summary        |-> answers.summary,
          gaps           |-> answers.gaps,
          roadmap        |-> answers.roadmap,
          ats_score      |-> ats_score,
          skills         |-> [technical   |-> technical,
                              soft        |-> soft,
                              total_count |-> skills.total_count],
          interview_tips |-> generate_interview_tips("Software Engineer", technical)]
            : technical \in Orderings(skills.technical), soft \in Orderings(skills.soft)}

\* keywords.replace("\n", "")
RECURSIVE WithoutNewlines(_)
WithoutNewlines(text) ==
    IF text = "" THEN ""
    ELSE IF SubSeq(text, 1, 1) = "\n" THEN WithoutNewlines(SubSeq(text, 2, Len(text)))
    ELSE SubSeq(text, 1, 1) \o WithoutNewlines(SubSeq(text, 2, Len(text)))

\* The entry appended to all_jobs for a fetched job of a source; the
\* description scored is the tags for RemoteOK and '' for the others.
JobEntry(source, job, technical) ==
    [source      |-> source,
     title       |-> job.title,
     company     |-> job.companyName,
     location    |-> job.location,
     url         |-> job.url,
     match_score |-> calculate_job_match_score(technical, job.title,
                         IF source = "RemoteOK" THEN job.tags ELSE ""),
     tags        |-> IF source = "RemoteOK" THEN job.tags ELSE ""]

JobEntries(source, jobs, technical) ==
    [i \in 1..Len(jobs) |-> JobEntry(source, jobs[i], technical)]

\* Mutant: an entry goes before the entries of the same score.
InsertBeforeEqualScores(sorted, job) ==
    LET k == Cardinality({i \in 1..Len(sorted) : sorted[i].match_score > job.match_score})
    IN  SubSeq(sorted, 1, k) \o <<job>> \o SubSeq(sorted, k + 1, Len(sorted))

\* One step of a stable sort by descending match_score: the entry goes after
\* every entry whose score is not lower.
InsertByScore(sorted, job) ==
    LET k == Cardinality({i \in 1..Len(sorted) : sorted[i].match_score >= job.match_score})
    IN  SubSeq(sorted, 1, k) \o <<job>> \o SubSeq(sorted, k + 1, Len(sorted))

\* all_jobs.sort(key=lambda x: x['match_score'], reverse=True): list.sort is
\* stable, with reverse=True too.
RECURSIVE SortByScore(_)
SortByScore(all_jobs) ==
    IF Len(all_jobs) = 0 THEN << >>
    ELSE InsertByScore(SortByScore(SubSeq(all_jobs, 1, Len(all_jobs) - 1)),
                       all_jobs[Len(all_jobs)])

\* all_jobs before it is sorted: RemoteOK, then Adzuna, then Naukri.
MergedJobs(remoteok_jobs, adzuna_jobs, naukri_jobs, technical) ==
    JobEntries("RemoteOK", remoteok_jobs, technical)
        \o JobEntries("Adzuna", adzuna_jobs, technical)
        \o JobEntries("Naukri", naukri_jobs, technical)

\* The job card displayed for an entry.
JobCard(job) ==
    [source |-> job.source, title |-> job.title, company |-> job.company,
     location |-> job.location, url |-> job.url, match_score |-> job.match_score,
     tags |-> job.tags, salary |-> estimate_salary_range(job.title, "India")]

\* for idx, job in enumerate(all_jobs[:30], 1)
JobCards(all_jobs) ==
    LET shown == Prefix(all_jobs, 30)
    IN  [i \in 1..Len(shown) |-> JobCard(shown[i])]

SearchKeywords(keywords) == Strip(WithoutNewlines(keywords))

\* What the three fetchers return for the search keywords, max_jobs=20.
Fetched(w) ==
    LET query == SearchKeywords(w.keywords)
    IN  [remoteok |-> fetch_remoteok_jobs(query, 20, w.remoteok),
         adzuna   |-> fetch_adzuna_jobs(query, "india", 20, w.env, w.adzuna),
         naukri   |-> fetch_naukri_jobs(query, "india", 20, w.naukri)]

\* all_jobs of the job tab, sorted.
SortedJobs(fetched, data) ==
    SortByScore(MergedJobs(fetched.remoteok.returned, fetched.adzuna.returned,
                           fetched.naukri.returned, data.skills.technical))

UploadPage == [NoPage EXCEPT !.view = "upload"]

\* A run ended by an exception: the framework displays it.
ErrorPage == [NoPage EXCEPT !.view = "error"]

Dashboard(data) == [NoPage EXCEPT !.view = "dashboard", !.data = data]

\* The dashboard with the job tab after 'Find Matching Jobs'.
JobsPage(fetched, data) ==
    LET all_jobs == SortedJobs(fetched, data)
    IN  IF Len(all_jobs) > 0
        THEN [view |-> "jobs", data |-> data, cards |-> JobCards(all_jobs)]
        ELSE [view |-> "no_jobs", data |-> data, cards |-> << >>]

\* The results part of the script: the dashboard of data, and the job search
\* when the button was clicked.  issued is what the run has requested so far.
Display(data, clicked, issued) ==
    IF ~clicked
    THEN /\ page' = Dashboard(data)
         /\ requests' = issued
    ELSE \E keywords_raise \in BOOLEAN :
            IF keywords_raise
            THEN /\ page' = ErrorPage
                 /\ requests' = issued \o <<"ask_openai">>
            ELSE LET fetched == Fetched(world)
                 IN  /\ page' = JobsPage(fetched, data)
                     /\ requests' = issued \o <<"ask_openai">>
                                       \o fetched.remoteok.issued
                                       \o fetched.adzuna.issued
                                       \o fetched.naukri.issued

ResumeFiles == {"a.pdf", "b.pdf"}

\* What extract_text_from_pdf reads from a file.
PdfText(file) == IF file = "a.pdf" THEN "I know Python and AWS" ELSE "leadership and SQL"

\* What the language model answers during the analysis, when it answers.
Answers == [raises : BOOLEAN, summary : {"", "Python developer"},
            gaps : {"Learn Docker"}, roadmap : {"Get certified"}]

\* One run of the script with the upload widget holding file.
Script(file, clicked) ==
    LET state == InitSessionState(session_state)
    IN  IF file = "none"
        THEN /\ session_state' = state
             /\ page' = UploadPage
             /\ requests' = << >>
             /\ UNCHANGED analysis_runs
        ELSE IF AnalysisNeeded(state)
        THEN \E answers \in Answers :
                IF answers.raises
                THEN /\ session_state' = state
                     /\ page' = ErrorPage
                     /\ requests' = AnalysisRequests
                     /\ UNCHANGED analysis_runs
                ELSE \E data \in AnalysisResults(PdfText(file), answers) :
                        /\ session_state' = [state EXCEPT !.resume_data = data,
                                                          !.analysis_done = TRUE]
                        /\ analysis_runs' = analysis_runs + 1
                        /\ Display(data, clicked, AnalysisRequests)
        ELSE /\ session_state' = state
             /\ UNCHANGED analysis_runs
             /\ Display(state.resume_data, clicked, << >>)

\* The user puts a file into the upload widget, in place of the one there.
UploadFile ==
    \E file \in ResumeFiles \ {uploaded_file} :
        /\ uploaded_file' = file
        /\ Script(file, FALSE)
        /\ UNCHANGED <<call, result, pc, world>>

\* The user takes the file out of the upload widget.
RemoveFile ==
    /\ uploaded_file # "none"
    /\ uploaded_file' = "none"
    /\ Script("none", FALSE)
    /\ UNCHANGED <<call, result, pc, world>>

\* The page is loaded, or a widget other than the two above is used.
Rerun ==
    /\ Script(uploaded_file, FALSE)
    /\ UNCHANGED <<call, result, pc, world, uploaded_file>>

\* The user clicks 'Find Matching Jobs', which the dashboard displays.
FindMatchingJobs ==
    /\ page.view \in {"dashboard", "jobs", "no_jobs"}
    /\ Script(uploaded_file, TRUE)
    /\ UNCHANGED <<call, result, pc, world, uploaded_file>>

\* 45 jobs: more than the 40 that fetch_remoteok_jobs looks at for max_jobs=20.
AppRemoteok ==
    {[NoResponse EXCEPT !.raises = TRUE],
     [NoResponse EXCEPT !.status_code = 200, !.json_ok = TRUE,
                        !.json = <<RemoteokMetadata>> \o Cycle(<<PythonJob, ChefJob, AwsJob>>, 45)],
     [NoResponse EXCEPT !.status_code = 200, !.json_ok = TRUE,
                        !.json = <<RemoteokMetadata>> \o Cycle(<<ChefJob, PythonJob>>, 2)]}

AppAdzuna ==
    {[NoResponse EXCEPT !.status_code = 500],
     [NoResponse EXCEPT !.status_code = 200, !.json_ok = TRUE,
                        !.results = Cycle(AdzunaJobs, 16)]}

AppNaukri ==
    {[raises |-> TRUE, items |-> << >>],
     [raises |-> FALSE, items |-> Cycle(NaukriItems, 16)]}

AppWorlds ==
    [env      : {[ADZUNA_APP_ID |-> "", ADZUNA_APP_KEY |-> ""],
                 [ADZUNA_APP_ID |-> "id", ADZUNA_APP_KEY |-> "key"]},
     remoteok : AppRemoteok,
     adzuna   : AppAdzuna,
     naukri   : AppNaukri,
     keywords : {"python, aws", "\nChef, Developer \n"}]

InitApp == /\ call = NoCall
           /\ result = 0
           /\ pc = "idle"
           /\ world \in AppWorlds
           /\ requests = << >>
           /\ session_state = EmptyDict
           /\ uploaded_file = "none"
           /\ page = NoPage
           /\ analysis_runs = 0

NextApp == UploadFile \/ RemoveFile \/ Rerun \/ FindMatchingJobs

SpecApp == InitApp /\ [][NextApp]_vars

(***************************************************************************)
(* Claims about calculate_ats_score (checked under SpecAts)                *)
(***************************************************************************)
AtsDone == pc = "done" /\ call.fn = "calculate_ats_score"

\* The sum of the six values of the returned breakdown.
BreakdownSum ==
    result.breakdown.contact_info + result.breakdown.section_headers
    + result.breakdown.dates + result.breakdown.action_verbs
    + result.breakdown.quantifiable_achievements + result.breakdown.optimal_length

\* C1: total_score is in 0..100 and every breakdown value is non-negative and
\* within its cap: contact_info <= 20, section_headers <= 20, dates <= 15,
\* action_verbs <= 20, quantifiable_achievements <= 15, optimal_length <= 10.
C1_ScoresWithinCaps ==
    AtsDone =>
        /\ result.total_score \in 0..100
        /\ result.breakdown.contact_info \in 0..20
        /\ result.breakdown.section_headers \in 0..20
        /\ result.breakdown.dates \in 0..15
        /\ result.breakdown.action_verbs \in 0..20
        /\ result.breakdown.quantifiable_achievements \in 0..15
        /\ result.breakdown.optimal_length \in 0..10

\* A text with more than five date matches: the cap of the dates category bites.
C1_Witness ==
    /\ AtsDone
    /\ DateCount(call.resume_text) * 3 > 15
    /\ result.breakdown.dates = 15
    /\ result.breakdown.contact_info = 20

\* The grade the claim assigns to a total.
ClaimGrade(total) ==
    CASE total >= 90 -> "A+"
      [] total < 90 /\ total >= 80 -> "A"
      [] total < 80 /\ total >= 70 -> "B+"
      [] total < 70 /\ total >= 60 -> "B"
      [] total < 60 /\ total >= 50 -> "C"
      [] total < 50 -> "D"

\* C7: the returned grade is the step function of the returned total_score:
\* A+ from 90, A from 80, B+ from 70, B from 60, C from 50, D below.
C7_GradeIsStepOfTotal == AtsDone => result.grade = ClaimGrade(result.total_score)

\* A total exactly on a threshold.
C7_Witness == AtsDone /\ result.total_score = 90 /\ result.grade = "A+"

\* C8: the sum of the six sub-scores never exceeds 100, and total_score equals it.
C8_TotalIsUnclampedSum ==
    AtsDone => (BreakdownSum <= 100 /\ result.total_score = BreakdownSum)

\* Every category at its cap: the sum is exactly 100.
C8_Witness ==
    /\ AtsDone
    /\ result.breakdown = [contact_info |-> 20, section_headers |-> 20, dates |-> 15,
                           action_verbs |-> 20, quantifiable_achievements |-> 15,
                           optimal_length |-> 10]
    /\ result.total_score = 100

\* The number of whitespace-separated words, counted at the words' last characters.
ClaimWordCount(t) ==
    Cardinality({i \in 1..Len(t) : /\ CharAt(t, i) \notin SpaceChars
                                   /\ CharAt(t, i + 1) \in SpaceChars \cup {""}})

\* The length score the claim assigns to a word count.
ClaimLengthScore(w) ==
    CASE w >= 300 /\ w <= 1500 -> 10
      [] (w >= 200 /\ w < 300) \/ (w > 1500 /\ w <= 2000) -> 5
      [] w < 200 \/ w > 2000 -> 2

\* C9: optimal_length is a function of the word count w alone: 10 for
\* 300 <= w <= 1500, 5 for 200 <= w < 300 and 1500 < w <= 2000, 2 otherwise;
\* the texts of exactly 300 and 1500 words get 10, of 299 and 1501 words 5, of
\* 100 and 2500 words 2.
C9_LengthScoreByWordCount ==
    AtsDone =>
        /\ result.breakdown.optimal_length = ClaimLengthScore(ClaimWordCount(call.resume_text))
        /\ call.resume_text \in {Filler(300), Filler(1500)}
              => result.breakdown.optimal_length = 10
        /\ call.resume_text \in {Filler(299), Filler(1501)}
              => result.breakdown.optimal_length = 5
        /\ call.resume_text \in {Filler(100), Filler(2500)}
              => result.breakdown.optimal_length = 2

\* A resume of exactly 1500 words, with content besides the filler.
C9_Witness ==
    /\ AtsDone
    /\ WordCount(call.resume_text) = 1500
    /\ result.breakdown.action_verbs > 0
    /\ result.breakdown.optimal_length = 10

(***************************************************************************)
(* Claims about calculate_job_match_score (checked under SpecMatch)        *)
(***************************************************************************)
MatchDone == pc = "done" /\ call.fn = "calculate_job_match_score"

\* The two counts the claims speak of, stated on the call's arguments.
ClaimMatches ==
    Cardinality({i \in 1..Len(call.skills) :
        Contains(Lower(call.job_title \o " " \o call.job_description), Lower(call.skills[i]))})

ClaimTitleMatches ==
    LET words == Split(Lower(call.job_title))
    IN  Cardinality({i \in 1..Len(words) : Contains(Join(LowerAll(call.skills)), words[i])})

ClampTo100(x) == IF x < 100 THEN x ELSE 100

\* round(a / b) as Python rounds: to the nearest integer, ties to the even one.
RoundNearest(a, b) ==
    LET q == a \div b
        r == a % b
    IN  IF 2 * r > b THEN q + 1
        ELSE IF 2 * r < b THEN q
        ELSE IF q % 2 = 0 THEN q ELSE q + 1

IsExampleCall ==
    /\ call.skills = <<"python", "django">>
    /\ call.job_title = "Python Developer"
    /\ call.job_description = ""

\* C2 as stated: calculate_job_match_score(['python','django'], 'Python Developer')
\* with the default empty description returns 100.
C2_ExampleReturns100 == (MatchDone /\ IsExampleCall) => result = 100

\* C2 amended: that call returns 55: only 'python' occurs in "python developer ",
\* so the base is 50, and the title word 'python' adds 5.
C2_ExampleReturns55 == (MatchDone /\ IsExampleCall) => result = 55

C2_Witness == MatchDone /\ IsExampleCall /\ ClaimMatches = 1 /\ ClaimTitleMatches = 1

\* C3 as stated: for a non-empty skill list the score is min(100, base + 5 * titleMatches)
\* with base = 100 * matches / |skills| rounded to the nearest integer.
C3_ScoreWithRoundedBase ==
    (MatchDone /\ Len(call.skills) > 0) =>
        result = ClampTo100(RoundNearest(100 * ClaimMatches, Len(call.skills))
                            + 5 * ClaimTitleMatches)

\* C3 amended: for a non-empty skill list the score is min(100, base + 5 * titleMatches)
\* with base = 100 * matches / |skills| truncated to an integer (rounded down).
C3_ScoreWithTruncatedBase ==
    (MatchDone /\ Len(call.skills) > 0) =>
        result = ClampTo100((100 * ClaimMatches) \div Len(call.skills)
                            + 5 * ClaimTitleMatches)

\* Two of three skills match and the truncated base (66) differs from the rounded one (67).
C3_Witness ==
    /\ MatchDone
    /\ Len(call.skills) = 3
    /\ ClaimMatches = 2
    /\ ClaimTitleMatches = 1
    /\ result = 71

\* C4: for every skill list, repeated skills included, the score is an integer in 0..100.
C4_ScoreInRange == MatchDone => result \in 0..100

\* A list that repeats a skill, every entry and two title words matching: 100 + 10 clamped.
C4_Witness ==
    /\ MatchDone
    /\ \E i, j \in 1..Len(call.skills) : i # j /\ call.skills[i] = call.skills[j]
    /\ ClaimMatches = Len(call.skills)
    /\ ClaimTitleMatches >= 2
    /\ result = 100

\* C5: with an empty skill list the score is 0 for every title and description.
C5_EmptySkillsScoreZero == (MatchDone /\ call.skills = << >>) => result = 0

\* An empty list against a title that has words and a description that is not empty.
C5_Witness ==
    /\ MatchDone
    /\ call.skills = << >>
    /\ Len(Split(call.job_title)) >= 2
    /\ call.job_description # ""
    /\ result = 0

\* C21: for every fixed skill list and title, supplying a job description
\* never lowers the match score: the score with the description is at least
\* the score of the same skills and title with the empty description.
C21_DescriptionNeverLowersScore ==
    MatchDone =>
        result >= calculate_job_match_score(call.skills, call.job_title, "")

\* A description that names a skill the title does not: the score with it is
\* above the score without it.
C21_Witness ==
    /\ MatchDone
    /\ call.job_description # ""
    /\ call.skills # << >>
    /\ result > calculate_job_match_score(call.skills, call.job_title, "")

(***************************************************************************)
(* Claims about estimate_salary_range (checked under SpecSalary)           *)
(***************************************************************************)
SalaryDone == pc = "done" /\ call.fn = "estimate_salary_range"

\* The order of the keys as the claim lists it.
ClaimKeyOrder == <<"intern", "junior", "software engineer", "senior", "lead", "manager",
                   "architect", "director", "data scientist", "devops", "full stack",
                   "frontend", "backend">>

\* The band the table holds under a key, as the function formats it.
BandOfKey(key) ==
    LET value == salary_ranges[CHOOSE k \in 1..Len(salary_ranges) : salary_ranges[k].key = key]
    IN  [min |-> value.min \o " LPA", max |-> value.max \o " LPA",
         avg |-> value.avg \o " LPA", currency |-> "INR"]

\* C6: the result is the band of the first key, in the listed order, that is a
\* substring of the lowercased title, and the default band 4/12/7 LPA when no key
\* is; currency is always INR; 'Senior Software Engineer' gets the band of
\* 'software engineer', the first of its matching keys.
C6_FirstMatchingKeyWins ==
    SalaryDone =>
        LET t == Lower(call.job_title)
            n == Len(ClaimKeyOrder)
        IN  /\ result.currency = "INR"
            /\ \A k \in 1..n :
                  (/\ Contains(t, ClaimKeyOrder[k])
                   /\ \A j \in 1..(k - 1) : ~Contains(t, ClaimKeyOrder[j]))
                  => result = BandOfKey(ClaimKeyOrder[k])
            /\ (\A k \in 1..n : ~Contains(t, ClaimKeyOrder[k]))
                  => result = [min |-> "4 LPA", max |-> "12 LPA", avg |-> "7 LPA",
                               currency |-> "INR"]
            /\ call.job_title = "Senior Software Engineer"
                  => result = BandOfKey("software engineer")

\* A title that holds two keys whose bands differ, answered with the earlier one.
C6_Witness ==
    /\ SalaryDone
    /\ call.job_title = "Senior Software Engineer"
    /\ result.min = "4 LPA" /\ result.max = "12 LPA" /\ result.avg = "7 LPA"
    /\ BandOfKey("senior") # result

(***************************************************************************)
(* Claims about generate_interview_tips (checked under SpecTips)           *)
(***************************************************************************)
TipsDone == pc = "done" /\ call.fn = "generate_interview_tips"

RoleBundles == {DataTips, FrontendTips, BackendTips, DevopsTips, FullStackTips, DefaultTips}

\* C10: at most 8 tips are returned; the first three are the universal tips in
\* their order and the next three are exactly one role-specific bundle.
C10_AtMostEightUniversalThenBundle ==
    TipsDone =>
        /\ Len(result) <= 8
        /\ Len(result) >= 6
        /\ SubSeq(result, 1, 3) = UniversalTips
        /\ SubSeq(result, 4, 6) \in RoleBundles

\* Both skill-triggered tips are present after a bundle that is not the default one.
C10_Witness ==
    /\ TipsDone
    /\ Len(result) = 8
    /\ SubSeq(result, 4, 6) = BackendTips
    /\ result[7] = PythonTip
    /\ result[8] = CloudTip

\* The role groups in the order the claim lists them: keywords, then bundle.
ClaimRoleGroups == <<
    [keywords |-> {"data", "ml", "ai"},          bundle |-> DataTips],
    [keywords |-> {"frontend", "react", "ui"},   bundle |-> FrontendTips],
    [keywords |-> {"backend", "api"},            bundle |-> BackendTips],
    [keywords |-> {"devops", "sre"},             bundle |-> DevopsTips],
    [keywords |-> {"full stack"},                bundle |-> FullStackTips] >>

\* The groups of which some keyword occurs in the lowercased title of the call.
OccurringGroups ==
    LET t == Lower(call.job_title)
    IN  {g \in 1..Len(ClaimRoleGroups) : \E kw \in ClaimRoleGroups[g].keywords : Contains(t, kw)}

\* C11: the bundle returned is that of the first group, in the order data|ml|ai,
\* frontend|react|ui, backend|api, devops|sre, full stack, with a keyword in the
\* lowercased title; a title with 'backend' or 'api' gets the backend bundle only
\* if no keyword of the two earlier groups occurs; the default bundle is chosen
\* exactly when no keyword of any group occurs.
C11_FirstMatchingGroupWins ==
    TipsDone =>
        LET occurring == OccurringGroups
            chosen == SubSeq(result, 4, 6)
        IN  /\ \A g \in occurring :
                  (\A h \in 1..(g - 1) : h \notin occurring)
                  => chosen = ClaimRoleGroups[g].bundle
            /\ (3 \in occurring /\ chosen = BackendTips)
                  => (1 \notin occurring /\ 2 \notin occurring)
            /\ (chosen = DefaultTips) <=> (occurring = {})

\* A title with a backend keyword and a frontend keyword gets the frontend bundle.
C11_Witness ==
    /\ TipsDone
    /\ OccurringGroups = {2, 3}
    /\ SubSeq(result, 4, 6) = FrontendTips

\* tip is one of the returned tips.
Returned(tip) == \E i \in 1..Len(result) : result[i] = tip

\* Some skill of the call equals x when case is ignored.
HasSkillIgnoringCase(x) == \E i \in 1..Len(call.skills) : Lower(call.skills[i]) = Lower(x)

\* C12: the returned list holds the Python tip iff some skill equals 'python'
\* ignoring case, and the cloud tip iff some skill equals 'aws', 'azure' or 'gcp'
\* ignoring case; generate_interview_tips('Backend API Engineer', ['python'])
\* holds a backend-specific tip and the Python tip.
C12_SkillTipsIffSkillPresent ==
    TipsDone =>
        /\ Returned(PythonTip) <=> HasSkillIgnoringCase("python")
        /\ Returned(CloudTip) <=> (\/ HasSkillIgnoringCase("aws")
                                   \/ HasSkillIgnoringCase("azure")
                                   \/ HasSkillIgnoringCase("gcp"))
        /\ call = ExampleTipCall =>
              (Returned(PythonTip) /\ \E i \in 1..Len(BackendTips) : Returned(BackendTips[i]))

\* A skill spelt with capitals triggers its tip, one that only contains 'python' does not.
C12_Witness ==
    /\ TipsDone
    /\ call.skills = <<"pythonic", "Azure">>
    /\ Returned(CloudTip)
    /\ ~Returned(PythonTip)

\* C13 as stated: some input assembles more than 8 tips, so that the slice to the
\* first 8 drops one.
C13_SomeInputExceedsEight ==
    TipsDone =>
        \E c \in TipCalls \cup {ExampleTipCall} :
            Len(AssembledTips(c.job_title, c.skills)) > 8

\* C13 amended: every input assembles 6 to 8 tips (3 universal, one bundle of 3,
\* at most 2 skill-triggered), so the slice to the first 8 never drops a tip: the
\* returned list is the whole assembled list.
C13_SliceNeverDrops ==
    TipsDone =>
        /\ Len(AssembledTips(call.job_title, call.skills)) \in 6..8
        /\ result = AssembledTips(call.job_title, call.skills)

\* The longest assembly there is: a title of two role groups and both skill tips.
C13_Witness ==
    /\ TipsDone
    /\ OccurringGroups = {1, 4}
    /\ HasSkillIgnoringCase("python") /\ HasSkillIgnoringCase("gcp")
    /\ Len(AssembledTips(call.job_title, call.skills)) = 8
    /\ Len(result) = 8

(***************************************************************************)
(* Claims about extract_skills                                             *)
(***************************************************************************)
SkillsDone == pc = "done" /\ call.fn = "extract_skills"

\* The text passed as from_ai, "" when None was passed.
AiText == IF Len(call.from_ai) = 1 THEN call.from_ai[1] ELSE ""

NoTwoDifferOnlyInCase(S) == \A a \in S, b \in S : a # b => Lower(a) # Lower(b)

\* C14: for every resume text and AI text, the technical list returned by
\* extract_skills holds no two distinct entries that are equal when compared
\* case-insensitively, and neither does the soft list.
C14_NoCaseInsensitiveDuplicates ==
    SkillsDone => /\ NoTwoDifferOnlyInCase(result.technical)
                  /\ NoTwoDifferOnlyInCase(result.soft)

\* The resume names python, the AI text names Python and Leadership: python is
\* kept once and the other AI word is added.
C14_Witness ==
    /\ SkillsDone
    /\ "Python" \in Range(CapitalizedSequences(AiText))
    /\ "python" \in result.technical
    /\ "Leadership" \in result.technical

\* C15: for every resume text and AI text, the technical and soft sets returned
\* by extract_skills are disjoint under case-insensitive comparison, so that
\* total_count (= |technical| + |soft|) is the number of case-insensitively
\* distinct skills in their union.
C15_DisjointIgnoringCase ==
    SkillsDone =>
        /\ \A a \in result.technical, b \in result.soft : Lower(a) # Lower(b)
        /\ result.total_count = Cardinality(result.technical) + Cardinality(result.soft)
        /\ result.total_count
              = Cardinality({Lower(x) : x \in result.technical \cup result.soft})

\* term (all lowercase) occurs in text when case is ignored: some stretch of
\* text is term, character by character, once each is lowercased.
ClaimOccurs(term, text) ==
    \E i \in 1..(Len(text) - Len(term) + 1) :
        \A j \in 1..Len(term) : LowerChar(CharAt(text, i + j - 1)) = CharAt(term, j)

ClaimVocabularyFound(keywords, text) == {k \in Range(keywords) : ClaimOccurs(k, text)}

\* C16: soft is exactly the soft-vocabulary terms that occur case-insensitively
\* in the resume text, whatever the AI text; technical is exactly the
\* technical-vocabulary terms that so occur plus the capitalized-word sequences
\* of the AI text whose lowercase form is not a matched technical term; with
\* the AI text absent or empty technical is within the vocabulary, and
\* 'I know Python and AWS' yields python and aws.
C16_SkillsAreVocabularyPlusAiWords ==
    SkillsDone =>
        LET matched == ClaimVocabularyFound(tech_skills_keywords, call.resume_text)
        IN  /\ result.soft = ClaimVocabularyFound(soft_skills_keywords, call.resume_text)
            /\ result.technical
                  = matched \cup {sq \in Range(CapitalizedSequences(AiText)) :
                                      Lower(sq) \notin matched}
            /\ AiText = "" => result.technical \subseteq Range(tech_skills_keywords)
            /\ (call.resume_text = "I know Python and AWS" /\ AiText = "")
                  => result.technical = {"python", "aws"}
            /\ (call.resume_text = "" /\ AiText = "PyTorch and Docker")
                  => result.technical = {"Docker"}

\* A resume naming two technical terms and a soft one, with an AI text of which
\* one word sequence is added and one is already matched.
C16_Witness ==
    /\ SkillsDone
    /\ call.resume_text = "I know Python and AWS leadership"
    /\ AiText = "Python, Machine  Learning;"
    /\ result = [technical |-> {"python", "aws", "Machine  Learning"},
                 soft |-> {"leadership"}, total_count |-> 4]

(***************************************************************************)
(* Claim about all five functions                                          *)
(***************************************************************************)
Grades == {"A+", "A", "B+", "B", "C", "D"}

BreakdownKeys == {"contact_info", "section_headers", "dates", "action_verbs",
                  "quantifiable_achievements", "optimal_length"}

\* The result has the shape the function's signature and docstring promise.
WellFormed(fn, r) ==
    CASE fn = "calculate_ats_score" ->
             /\ DOMAIN r = {"total_score", "max_score", "breakdown", "grade"}
             /\ r.total_score \in 0..100
             /\ r.max_score = 100
             /\ DOMAIN r.breakdown = BreakdownKeys
             /\ \A k \in BreakdownKeys : r.breakdown[k] \in Nat
             /\ r.grade \in Grades
      [] fn = "extract_skills" ->
             /\ DOMAIN r = {"technical", "soft", "total_count"}
             /\ \A x \in r.technical \cup r.soft : x \in STRING
             /\ r.total_count \in Nat
      [] fn = "calculate_job_match_score" -> r \in 0..100
      [] fn = "estimate_salary_range" ->
             /\ DOMAIN r = {"min", "max", "avg", "currency"}
             /\ \A k \in DOMAIN r : r[k] \in STRING /\ r[k] # ""
      [] fn = "generate_interview_tips" ->
             /\ DOMAIN r = 1..Len(r)
             /\ \A i \in 1..Len(r) : r[i] \in STRING

\* C17: each of calculate_ats_score, extract_skills, calculate_job_match_score,
\* estimate_salary_range and generate_interview_tips ends with a well-formed
\* result and never raises, for every string input, the empty string included,
\* and for every skill list, the empty list included.  The division of line 171
\* is the one operation of the five functions that can raise on strings and
\* lists of strings: no call is about to evaluate it with a zero divisor, no
\* call has raised, and every call that ended left a well-formed result.
C17_TotalAndWellFormed ==
    /\ pc # "raised"
    /\ (pc = "call" /\ call.fn = "calculate_job_match_score")
          => ~ZeroDivisionError(call.skills)
    /\ pc = "done" => WellFormed(call.fn, result)

\* The match score of an empty skill list has been computed: no division
\* took place and the result is 0.
C17_Witness ==
    /\ pc = "done"
    /\ call.fn = "calculate_job_match_score"
    /\ call.skills = << >>
    /\ call.job_title = ""
    /\ result = 0

(***************************************************************************)
(* Claim about the job-board fetchers                                      *)
(***************************************************************************)
Fetchers == {"fetch_remoteok_jobs", "fetch_adzuna_jobs", "fetch_naukri_jobs"}

FetchDone == pc = "done" /\ call.fn \in Fetchers

\* The response the HTTP fetcher under way receives.
HttpResponse == IF call.fn = "fetch_remoteok_jobs" THEN world.remoteok ELSE world.adzuna

\* The external call of the fetcher under way raises: the request itself, or
\* the decoding of its answer.
ExternalCallRaises ==
    IF call.fn = "fetch_naukri_jobs" THEN world.naukri.raises
    ELSE HttpResponse.raises \/ (HttpResponse.status_code = 200 /\ ~HttpResponse.json_ok)

CredentialMissing == world.env.ADZUNA_APP_ID = "" \/ world.env.ADZUNA_APP_KEY = ""

\* C19: each fetcher returns an empty list and raises nothing whenever its
\* external call raises; the two HTTP fetchers return an empty list on every
\* status other than 200; fetch_adzuna_jobs returns an empty list without
\* issuing a request when a credential is missing; fetch_remoteok_jobs never
\* returns more than max_jobs listings.
C19_FetchersSwallowFailures ==
    /\ call.fn \in Fetchers => pc # "raised"
    /\ FetchDone =>
          /\ ExternalCallRaises => result = << >>
          /\ (call.fn # "fetch_naukri_jobs" /\ HttpResponse.status_code # 200)
                => result = << >>
          /\ (call.fn = "fetch_adzuna_jobs" /\ CredentialMissing)
                => result = << >> /\ requests = << >>
          /\ call.fn = "fetch_remoteok_jobs" => Len(result) <= call.max_jobs

\* RemoteOK answered with more matching jobs than asked for, and max_jobs of
\* them came back.
C19_Witness ==
    /\ FetchDone
    /\ call.fn = "fetch_remoteok_jobs"
    /\ call.max_jobs = MaxJobs
    /\ Len(world.remoteok.json) > 2 * MaxJobs
    /\ Len(result) = MaxJobs
    /\ requests = <<RemoteokUrl>>

(***************************************************************************)
(* Claims about the dashboard                                              *)
(***************************************************************************)
JobsSearched == page.view \in {"jobs", "no_jobs"}

\* all_jobs as merged from the three sources, before the sort.
ClaimMerged ==
    LET fetched == Fetched(world)
    IN  MergedJobs(fetched.remoteok.returned, fetched.adzuna.returned,
                   fetched.naukri.returned, session_state.resume_data.skills.technical)

\* The place of entry i of merged in the order the claim describes: after the
\* entries of higher score and after the earlier entries of the same score.
ClaimRanks(merged) ==
    [i \in 1..Len(merged) |->
        Cardinality({j \in 1..Len(merged) : merged[j].match_score > merged[i].match_score})
        + Cardinality({j \in 1..(i - 1) : merged[j].match_score = merged[i].match_score})
        + 1]

SourceOrder(source) ==
    IF source = "RemoteOK" THEN 1 ELSE IF source = "Adzuna" THEN 2 ELSE 3

\* The entry of all_jobs a card displays.
EntryOfCard(card) ==
    [source |-> card.source, title |-> card.title, company |-> card.company,
     location |-> card.location, url |-> card.url, match_score |-> card.match_score,
     tags |-> card.tags]

\* C18: after 'Find Matching Jobs' the job cards shown are the first 30, or
\* fewer, entries of the merged RemoteOK + Adzuna + Naukri list sorted by
\* match_score in non-increasing order: no shown job has a lower score than a
\* job shown after it or than a job left out, and jobs of equal score keep the
\* merge order RemoteOK, Adzuna, Naukri.
C18_ShownAreFirstThirtySorted ==
    JobsSearched =>
        LET merged == ClaimMerged
            ranks == ClaimRanks(merged)
            shown == page.cards
        IN  /\ Len(shown) = IF Len(merged) < 30 THEN Len(merged) ELSE 30
            /\ \A i \in 1..Len(merged) :
                  ranks[i] <= 30 => EntryOfCard(shown[ranks[i]]) = merged[i]
            /\ \A k \in 1..(Len(shown) - 1) :
                  shown[k].match_score >= shown[k + 1].match_score
            /\ \A i \in 1..Len(merged) :
                  ranks[i] > 30 =>
                      \A k \in 1..Len(shown) : shown[k].match_score >= merged[i].match_score
            /\ \A k \in 1..Len(shown), l \in 1..Len(shown) :
                  (k < l /\ shown[k].match_score = shown[l].match_score)
                      => SourceOrder(shown[k].source) <= SourceOrder(shown[l].source)

\* More than 30 jobs were found; the 30 cards shown hold jobs of the three
\* sources with one score, and a job of that score is left out.
C18_Witness ==
    /\ page.view = "jobs"
    /\ Len(ClaimMerged) > 30
    /\ Len(page.cards) = 30
    /\ \E a \in 1..30, b \in 1..30, c \in 1..30 :
          /\ a < b /\ b < c
          /\ page.cards[a].source = "RemoteOK"
          /\ page.cards[b].source = "Adzuna"
          /\ page.cards[c].source = "Naukri"
          /\ page.cards[a].match_score = page.cards[c].match_score
    /\ \E i \in 1..Len(ClaimMerged) :
          /\ ClaimRanks(ClaimMerged)[i] > 30
          /\ ClaimMerged[i].match_score = page.cards[30].match_score

AnalysisDone == "analysis_done" \in DOMAIN session_state /\ session_state.analysis_done

DashboardShown == page.view \in {"dashboard", "jobs", "no_jobs"}

SevenKeys == {"resume_text", "summary", "gaps", "roadmap", "ats_score", "skills",
              "interview_tips"}

\* In every state of a session: the analysis block has run to its end at most
\* once, analysis_done is True exactly when it has, resume_data then holds the
\* seven keys, and the dashboard displays resume_data.
SessionInvariant ==
    /\ analysis_runs <= 1
    /\ AnalysisDone <=> analysis_runs = 1
    /\ AnalysisDone => DOMAIN session_state.resume_data = SevenKeys
    /\ DashboardShown => AnalysisDone /\ page.data = session_state.resume_data

\* In every run of the script that starts with analysis_done True:
\* analysis_done stays True, the analysis block is not entered, resume_data is
\* not assigned, and a dashboard displayed shows the resume_data of before.
SessionStep ==
    AnalysisDone =>
        /\ AnalysisDone'
        /\ analysis_runs' = analysis_runs
        /\ "extract_text_from_pdf" \notin Range(requests')
        /\ session_state'.resume_data = session_state.resume_data
        /\ DashboardShown' => page'.data = session_state.resume_data

\* C20: within one dashboard session, over any sequence of script reruns
\* (uploads, file replacements, button clicks), analysis_done never changes
\* from True back to False, the analysis block runs at most once, and once
\* analysis_done is True resume_data is never reassigned, so that replacing the
\* uploaded PDF with another file keeps displaying the first file's results;
\* and analysis_done = True implies that resume_data holds all seven keys.
C20_AnalysisRunsOnce == []SessionInvariant /\ [][SessionStep]_vars

\* The file was replaced after the analysis: the dashboard shows a resume text
\* that is not the text of the file now in the upload widget.
C20_Witness ==
    /\ AnalysisDone
    /\ DashboardShown
    /\ uploaded_file = "b.pdf"
    /\ page.data.resume_text = PdfText("a.pdf")
    /\ analysis_runs = 1

====
